---- MODULE Spec2Model ----
(***************************************************************************)
(* Model of the review-app action (src/index.js).  Every run of the action *)
(* is one invocation of run(); several runs triggered by events of the     *)
(* same pull request execute concurrently against the same remote          *)
(* pipeline.  One model step is one awaited remote call of a run together  *)
(* with the synchronous code that follows it up to the next await, or one  *)
(* asynchronous step of the remote platform.                               *)
(***************************************************************************)
EXTENDS Integers, Sequences, FiniteSets, TLC

Runs == {"r1", "r2"}

VALID_EVENT == "pull_request"

Versions == {"v1", "v2"}

\* The pull request the runs are triggered for, and another pull request of
\* the same pipeline whose review app is listed next to it.
PullRequests == <<42, 7>>
ThisPR == PullRequests[1]
OtherPR == PullRequests[2]

\* github.context as destructured by run(): the events of the pull request,
\* opened and reopened at commit v1, synchronized and closed at commit v2,
\* each from the repository itself and from a fork, and one event of another
\* kind.
PullRequestEvent(action, version, fork) ==
    [eventName |-> VALID_EVENT, action |-> action, forkRepo |-> fork,
     version |-> version, prNumber |-> ThisPR]

Events ==
    {PullRequestEvent("opened", "v1", f) : f \in BOOLEAN}
    \cup {PullRequestEvent("reopened", "v1", f) : f \in BOOLEAN}
    \cup {PullRequestEvent("synchronize", "v2", f) : f \in BOOLEAN}
    \cup {PullRequestEvent("closed", "v2", f) : f \in BOOLEAN}
    \cup {[PullRequestEvent("opened", "v1", FALSE) EXCEPT !.eventName = "push"]}

VARIABLES
    reviewApps,     \* the platform: the pipeline's review apps, in list order
    nextId,         \* the platform: the id the next review app gets
    ev,             \* per run: the event (github.context)
    pc,             \* per run: the await the run is suspended at
    app,            \* per run: `app` of run() (l.244, l.258)
    destroyStatus,  \* per run: `destroyStatus` (l.265)
    reviewApp,      \* per run: `reviewApp` of waitReviewAppUpdated (l.143)
    isFinished,     \* per run: `isFinished` (l.145)
    failed,         \* per run: whether, where and how core.setFailed was called
    outputs,        \* per run: what core.setOutput published
    calls,          \* per run: the remote calls issued so far
    postResult,     \* per run: how the create call ended
    sawPending      \* per run: a check saw the target build pending

vars == <<reviewApps, nextId, ev, pc, app, destroyStatus, reviewApp,
          isFinished, failed, outputs, calls, postResult,
          sawPending>>

platformVars == <<reviewApps, nextId>>
localVars == <<app, destroyStatus, reviewApp, isFinished>>

----------------------------------------------------------------------------
\* Values

\* null, as returned by findReviewApp
NoApp == [id |-> 0, pr_number |-> 0, status |-> "none", app |-> 0]

\* undefined, as returned by Array.prototype.find on the build list
NoBuild == [version |-> "none", status |-> "none"]

NoBuilds == [v \in Versions |-> "none"]

\* core.setFailed not called
NotFailed == [by |-> "no", at |-> "none", message |-> "none"]

NoOutputs == [app_id |-> 0, app_web_url |-> <<>>]

\* The platform gives applications ids of their own, apart from the ids of
\* review apps.
AppIdFor(id) == id + 100

WebUrl(appId) == <<"https", appId>>

----------------------------------------------------------------------------
\* The remote platform as the calls of the action see it

\* GET /pipelines/:id/review-apps
ListReviewApps ==
    [i \in DOMAIN reviewApps |->
        [id |-> reviewApps[i].id, pr_number |-> reviewApps[i].pr_number,
         status |-> reviewApps[i].status, app |-> reviewApps[i].app]]

\* Array.prototype.find visits the elements in list order: the first of the
\* indices that satisfy its predicate, or 0
First(hits) ==
    IF hits = {} THEN 0 ELSE CHOOSE i \in hits : \A j \in hits : i <= j

\* findReviewApp: reviewApps.find((app) => app.pr_number === prNumber)
FindReviewApp(list, prNumber) ==
    LET i == First({k \in DOMAIN list : list[k].pr_number = prNumber})
    IN IF i = 0 THEN NoApp ELSE list[i]

\* what findReviewApp of the run returns now
Located_Now(r) == FindReviewApp(ListReviewApps, ev[r].prNumber)

\* the platform's index of the review app with this review-app id, or 0
IndexOfReviewApp(id) ==
    First({k \in DOMAIN reviewApps : reviewApps[k].id = id})

\* the platform's index of the review app whose application has this id, or 0
IndexOfApplication(appId) ==
    First({k \in DOMAIN reviewApps :
              reviewApps[k].app # 0 /\ reviewApps[k].app = appId})

\* GET /apps/:id/builds: the builds of the application, as a list
BuildList(builds) ==
    LET Of(v) == IF builds[v] = "none" THEN <<>>
                 ELSE <<[version |-> v, status |-> builds[v]]>>
    IN Of("v1") \o Of("v2")

\* FindBuild that takes the first build of the list, whatever its version
FindBuild_First(list, version) ==
    IF list = <<>> THEN NoBuild ELSE list[1]

\* latestBuilds.find((build) => version === build.source_blob.version)
FindBuild(list, version) ==
    LET i == First({k \in DOMAIN list : list[k].version = version})
    IN IF i = 0 THEN NoBuild ELSE list[i]

\* PostConflict of a platform that accepts a second review app
PostConflict_Never(prNumber) == FALSE

\* POST /review-apps answers 409 when the pull request has a review app
PostConflict(prNumber) ==
    \E i \in DOMAIN reviewApps : reviewApps[i].pr_number = prNumber

Deleting(prNumber) ==
    \E i \in DOMAIN reviewApps :
        reviewApps[i].pr_number = prNumber /\ reviewApps[i].status = "deleting"

----------------------------------------------------------------------------
\* Initial states

ForeignApp ==
    [id |-> 1, pr_number |-> OtherPR, status |-> "created", app |-> AppIdFor(1),
     builds |-> [NoBuilds EXCEPT !["v1"] = "succeeded"]]

\* a review app an earlier run created for this pull request at commit v1
EarlierApp ==
    [id |-> 2, pr_number |-> ThisPR, status |-> "created", app |-> AppIdFor(2),
     builds |-> [NoBuilds EXCEPT !["v1"] = "succeeded"]]

Init ==
    /\ reviewApps \in {<<ForeignApp>>, <<ForeignApp, EarlierApp>>}
    /\ nextId = 3
    /\ ev \in [Runs -> Events]
    /\ pc = [r \in Runs |-> "start"]
    /\ app = [r \in Runs |-> NoApp]
    /\ destroyStatus = [r \in Runs |-> "none"]
    /\ reviewApp = [r \in Runs |-> NoApp]
    /\ isFinished = [r \in Runs |-> FALSE]
    /\ failed = [r \in Runs |-> NotFailed]
    /\ outputs = [r \in Runs |-> NoOutputs]
    /\ calls = [r \in Runs |-> {}]
    /\ postResult = [r \in Runs |-> "none"]
    /\ sawPending = [r \in Runs |-> FALSE]

----------------------------------------------------------------------------
\* The runs

Goto(r, label) == pc' = [pc EXCEPT ![r] = label]

Called(r, call) == calls' = [calls EXCEPT ![r] = @ \cup {call}]

\* the catch of run(): core.error(err); core.setFailed(err.message)
Caught(r, message) ==
    /\ pc' = [pc EXCEPT ![r] = "done"]
    /\ failed' = [failed EXCEPT ![r] =
                     [by |-> "caught", at |-> pc[r], message |-> message]]

\* ForkSkip with the fork check dropped
ForkSkip_Never(e) == FALSE

\* if (forkRepo) { core.notice(...); return; }
ForkSkip(e) == e.forkRepo

\* Entry of run() up to its first await: the event check, the fork skip and
\* the choice between closing and reconciling.
Start(r) ==
    /\ pc[r] = "start"
    /\ IF ev[r].eventName # VALID_EVENT
       THEN Caught(r, "Unexpected github event trigger")
       ELSE /\ failed' = failed
            /\ IF ForkSkip(ev[r]) THEN Goto(r, "done")
               ELSE IF ev[r].action = "closed" THEN Goto(r, "close_find")
               ELSE Goto(r, "find")
    /\ UNCHANGED <<platformVars, ev, localVars, outputs, calls, postResult,
                   sawPending>>

\* CloseFind without the check of the app found: the id of null is read
CloseFind_Unchecked(r) ==
    /\ pc[r] = "close_find"
    /\ LET found == FindReviewApp(ListReviewApps, ev[r].prNumber)
       IN /\ app' = [app EXCEPT ![r] = found]
          /\ IF found # NoApp
             THEN Goto(r, "close_delete") /\ failed' = failed
             ELSE Caught(r, "TypeError: cannot read id of null")
    /\ Called(r, [op |-> "list", id |-> 0, deleting |-> FALSE])
    /\ UNCHANGED <<platformVars, ev, destroyStatus, reviewApp, isFinished,
                   outputs, postResult, sawPending>>

\* closed: const app = await findReviewApp(); without an app the run is
\* marked failed and returns.
CloseFind(r) ==
    /\ pc[r] = "close_find"
    /\ LET found == FindReviewApp(ListReviewApps, ev[r].prNumber)
       IN /\ app' = [app EXCEPT ![r] = found]
          /\ IF found # NoApp
             THEN Goto(r, "close_delete") /\ failed' = failed
             ELSE /\ Goto(r, "done")
                  /\ failed' = [failed EXCEPT ![r] =
                                   [by |-> "setFailed", at |-> pc[r],
                                    message |-> "no existing review app"]]
    /\ Called(r, [op |-> "list", id |-> 0, deleting |-> FALSE])
    /\ UNCHANGED <<platformVars, ev, destroyStatus, reviewApp, isFinished,
                   outputs, postResult, sawPending>>

\* CloseDelete that destroys the application of the review app instead
CloseDelete_Destroys(r) ==
    /\ pc[r] = "close_delete"
    /\ LET i == IndexOfApplication(app[r].app)
       IN IF i # 0
          THEN /\ reviewApps' = [reviewApps EXCEPT ![i].status = "deleting"]
               /\ Goto(r, "done")
               /\ failed' = failed
          ELSE /\ reviewApps' = reviewApps
               /\ Caught(r, "HTTP 404")
    /\ Called(r, [op |-> "destroyApp", id |-> app[r].app,
                  deleting |-> FALSE])
    /\ UNCHANGED <<nextId, ev, localVars, outputs, postResult, sawPending>>

\* closed: await heroku.delete(`/review-apps/${app.id}`)
CloseDelete(r) ==
    /\ pc[r] = "close_delete"
    /\ LET i == IndexOfReviewApp(app[r].id)
       IN IF i # 0
          THEN /\ reviewApps' = [reviewApps EXCEPT ![i].status = "deleting"]
               /\ Goto(r, "done")
               /\ failed' = failed
          ELSE /\ reviewApps' = reviewApps
               /\ Caught(r, "HTTP 404")
    /\ Called(r, [op |-> "deleteReviewApp", id |-> app[r].id,
                  deleting |-> FALSE])
    /\ UNCHANGED <<nextId, ev, localVars, outputs, postResult, sawPending>>

\* reconcile: const app = await findReviewApp(); if (app) { ... }
Find(r) ==
    /\ pc[r] = "find"
    /\ LET found == FindReviewApp(ListReviewApps, ev[r].prNumber)
       IN /\ app' = [app EXCEPT ![r] = found]
          /\ IF found # NoApp THEN Goto(r, "destroy")
             ELSE Goto(r, "c_archive")
    /\ Called(r, [op |-> "list", id |-> 0, deleting |-> FALSE])
    /\ UNCHANGED <<platformVars, ev, destroyStatus, reviewApp, isFinished,
                   failed, outputs, postResult, sawPending>>

\* the id the destroy call names: heroku.delete(`/apps/${app.id}`)
DestroyTarget(a) == a.id

\* Destroy without the .catch: a failure of the call is thrown on
Destroy_Throws(r) ==
    /\ pc[r] = "destroy"
    /\ LET i == IndexOfApplication(DestroyTarget(app[r]))
       IN IF i # 0
          THEN /\ reviewApps' = [reviewApps EXCEPT ![i].status = "deleting"]
               /\ destroyStatus' = [destroyStatus EXCEPT ![r] = "deleting"]
               /\ Goto(r, "d_poll")
               /\ failed' = failed
          ELSE /\ reviewApps' = reviewApps
               /\ destroyStatus' = destroyStatus
               /\ Caught(r, "HTTP 404")
    /\ Called(r, [op |-> "destroyApp", id |-> DestroyTarget(app[r]),
                  deleting |-> FALSE])
    /\ UNCHANGED <<nextId, ev, app, reviewApp, isFinished, outputs,
                   postResult, sawPending>>

\* reconcile: await heroku.delete(`/apps/${app.id}`).catch(...); a failure of
\* the call is only noticed.  Then let destroyStatus = 'deleting'.
Destroy(r) ==
    /\ pc[r] = "destroy"
    /\ LET i == IndexOfApplication(DestroyTarget(app[r]))
       IN IF i # 0
          THEN reviewApps' = [reviewApps EXCEPT ![i].status = "deleting"]
          ELSE reviewApps' = reviewApps
    /\ destroyStatus' = [destroyStatus EXCEPT ![r] = "deleting"]
    /\ Goto(r, "d_poll")
    /\ Called(r, [op |-> "destroyApp", id |-> DestroyTarget(app[r]),
                  deleting |-> FALSE])
    /\ UNCHANGED <<nextId, ev, app, reviewApp, isFinished,
                   failed, outputs, postResult, sawPending>>

\* destroy-wait: reviewApp = await findReviewApp();
\* if (reviewApp) { destroyStatus = reviewApp.status; }
\* This reviewApp is not the one of waitReviewAppUpdated: it is an implicit
\* global of the script, read only within this step.
DestroyPoll(r) ==
    /\ pc[r] = "d_poll"
    /\ LET found == FindReviewApp(ListReviewApps, ev[r].prNumber)
       IN destroyStatus' = [destroyStatus EXCEPT ![r] =
                               IF found # NoApp THEN found.status ELSE @]
    /\ Goto(r, "d_sleep")
    /\ Called(r, [op |-> "list", id |-> 0, deleting |-> FALSE])
    /\ UNCHANGED <<platformVars, ev, app, reviewApp, isFinished,
                   failed, outputs, postResult, sawPending>>

\* DestroySleep of a loop that polls once: the status polled is not tested
DestroySleep_Once(r) ==
    /\ pc[r] = "d_sleep"
    /\ Goto(r, "c_archive")
    /\ UNCHANGED <<platformVars, ev, localVars, failed, outputs, calls,
                   postResult, sawPending>>

\* destroy-wait: await waitSeconds(5); while (destroyStatus === 'deleting')
DestroySleep(r) ==
    /\ pc[r] = "d_sleep"
    /\ IF destroyStatus[r] = "deleting" THEN Goto(r, "d_poll")
       ELSE Goto(r, "c_archive")
    /\ UNCHANGED <<platformVars, ev, localVars, failed, outputs, calls,
                   postResult, sawPending>>

\* createReviewApp: await octokit.rest.repos.downloadTarballArchive(...); its
\* failure carries no statusCode 409 and is thrown on to the catch of run().
CreateArchive(r) ==
    /\ pc[r] = "c_archive"
    /\ \E ok \in BOOLEAN :
        IF ok THEN Goto(r, "c_post") /\ failed' = failed
        ELSE Caught(r, "HTTP error")
    /\ UNCHANGED <<platformVars, ev, localVars, outputs, calls, postResult,
                   sawPending>>

\* the review app POST /review-apps adds to the pipeline
NewReviewApp(id, prNumber) ==
    [id |-> id, pr_number |-> prNumber, status |-> "pending", app |-> 0,
     builds |-> NoBuilds]

\* createReviewApp: await heroku.post('/review-apps', { body }): created, or
\* 409 (the catch goes on to find the app), or another failure (thrown on).
CreatePost(r) ==
    /\ pc[r] = "c_post"
    /\ \/ /\ PostConflict(ev[r].prNumber)
          /\ postResult' = [postResult EXCEPT ![r] = "conflict"]
          /\ Called(r, [op |-> "create", id |-> 0,
                        deleting |-> Deleting(ev[r].prNumber)])
          /\ Goto(r, "c_relocate")
          /\ UNCHANGED <<platformVars, failed>>
       \/ /\ ~PostConflict(ev[r].prNumber)
          /\ reviewApps' = Append(reviewApps,
                                  NewReviewApp(nextId, ev[r].prNumber))
          /\ nextId' = nextId + 1
          /\ postResult' = [postResult EXCEPT ![r] = "created"]
          /\ Called(r, [op |-> "create", id |-> nextId, deleting |-> FALSE])
          /\ Goto(r, "w_find1")
          /\ failed' = failed
       \/ /\ postResult' = [postResult EXCEPT ![r] = "error"]
          /\ Called(r, [op |-> "create", id |-> 0,
                        deleting |-> Deleting(ev[r].prNumber)])
          /\ Caught(r, "HTTP error")
          /\ UNCHANGED platformVars
    /\ UNCHANGED <<ev, localVars, outputs, sawPending>>

\* CreateRelocate with the sanity check inverted: if (app) throw
CreateRelocate_Inverted(r) ==
    /\ pc[r] = "c_relocate"
    /\ LET found == FindReviewApp(ListReviewApps, ev[r].prNumber)
       IN /\ reviewApp' = [reviewApp EXCEPT ![r] = found]
          /\ IF found # NoApp
             THEN Caught(r, "Previously got status 409 but no app found")
             ELSE Goto(r, "w_find1") /\ failed' = failed
    /\ Called(r, [op |-> "list", id |-> 0, deleting |-> FALSE])
    /\ UNCHANGED <<platformVars, ev, app, destroyStatus, isFinished,
                   outputs, postResult, sawPending>>

\* CreateRelocate that throws the 409 on without looking for the app
CreateRelocate_Rethrows(r) ==
    /\ pc[r] = "c_relocate"
    /\ Caught(r, "HTTP 409")
    /\ UNCHANGED <<platformVars, ev, localVars, outputs, calls, postResult,
                   sawPending>>

\* CreateRelocate without the sanity check of the app found
CreateRelocate_Unchecked(r) ==
    /\ pc[r] = "c_relocate"
    /\ reviewApp' = [reviewApp EXCEPT ![r] = Located_Now(r)]
    /\ Goto(r, "w_find1")
    /\ Called(r, [op |-> "list", id |-> 0, deleting |-> FALSE])
    /\ UNCHANGED <<platformVars, ev, app, destroyStatus, isFinished, failed,
                   outputs, postResult, sawPending>>

\* createReviewApp after 409: const app = await findReviewApp();
\* if (!app) throw ...; return app.  run() drops the returned app; it is
\* kept in reviewApp until the watcher's first findReviewApp replaces it.
CreateRelocate(r) ==
    /\ pc[r] = "c_relocate"
    /\ LET found == FindReviewApp(ListReviewApps, ev[r].prNumber)
       IN /\ reviewApp' = [reviewApp EXCEPT ![r] = found]
          /\ IF found = NoApp
             THEN Caught(r, "Previously got status 409 but no app found")
             ELSE Goto(r, "w_find1") /\ failed' = failed
    /\ Called(r, [op |-> "list", id |-> 0, deleting |-> FALSE])
    /\ UNCHANGED <<platformVars, ev, app, destroyStatus, isFinished,
                   outputs, postResult, sawPending>>

\* CheckReviewApp without the test of the application reference
CheckReviewApp_NoAppCheck(a) ==
    IF a = NoApp THEN "TypeError: cannot read status of null"
    ELSE IF a.status = "pending" \/ a.status = "creating" THEN "wait"
    ELSE IF a.status = "deleting" THEN "wait"
    ELSE "builds"

\* CheckReviewApp that takes a review app not found as one not yet ready
CheckReviewApp_NullWaits(a) ==
    IF a = NoApp THEN "wait"
    ELSE IF a.status = "pending" \/ a.status = "creating" THEN "wait"
    ELSE IF a.status = "deleting" THEN "wait"
    ELSE IF a.app = 0 THEN "Unexpected app status"
    ELSE "builds"

\* checkBuildStatusForReviewApp up to its await: "wait" for pending, creating
\* and deleting, "builds" to go on to fetch the builds, and otherwise the
\* message of the error thrown: the status of null cannot be read, and a
\* review app without application is unexpected.
CheckReviewApp(a) ==
    IF a = NoApp THEN "TypeError: cannot read status of null"
    ELSE IF a.status = "pending" \/ a.status = "creating" THEN "wait"
    ELSE IF a.status = "deleting" THEN "wait"
    ELSE IF a.app = 0 THEN "Unexpected app status"
    ELSE "builds"

\* waitReviewAppUpdated: reviewApp = await findReviewApp() (l.143 and l.152)
\* and the start of checkBuildStatusForReviewApp(reviewApp)
WatchFind(r) ==
    /\ pc[r] \in {"w_find1", "w_find2"}
    /\ LET found == FindReviewApp(ListReviewApps, ev[r].prNumber)
           check == CheckReviewApp(found)
       IN /\ reviewApp' = [reviewApp EXCEPT ![r] = found]
          /\ IF check \notin {"wait", "builds"}
             THEN Caught(r, check) /\ isFinished' = isFinished
             ELSE /\ failed' = failed
                  /\ IF check = "wait"
                     THEN /\ isFinished' = [isFinished EXCEPT ![r] = FALSE]
                          /\ Goto(r, IF pc[r] = "w_find1" THEN "w_find2"
                                     ELSE "w_sleep")
                     ELSE /\ isFinished' = isFinished
                          /\ Goto(r, IF pc[r] = "w_find1" THEN "w_builds1"
                                     ELSE "w_builds2")
    /\ Called(r, [op |-> "list", id |-> 0, deleting |-> FALSE])
    /\ UNCHANGED <<platformVars, ev, app, destroyStatus,
                   outputs, postResult, sawPending>>

\* BuildOutcome whose switch has a default that keeps waiting
BuildOutcome_Lenient(build) ==
    IF build = NoBuild THEN "TypeError: cannot read status of undefined"
    ELSE IF build.status = "succeeded" THEN "finished"
    ELSE "wait"

\* switch (build.status): "finished" (true), "wait" (false), and otherwise
\* the message of the error thrown: the status of undefined, when no build
\* matched, cannot be read, and any other status is unexpected.
BuildOutcome(build) ==
    IF build = NoBuild THEN "TypeError: cannot read status of undefined"
    ELSE IF build.status = "succeeded" THEN "finished"
    ELSE IF build.status = "pending" THEN "wait"
    ELSE "Unexpected build status"

\* checkBuildStatusForReviewApp from its await on:
\* latestBuilds = await heroku.get(`/apps/${appId}/builds`), the find of the
\* build of this version and the switch on its status
WatchBuilds(r) ==
    /\ pc[r] \in {"w_builds1", "w_builds2"}
    /\ Called(r, [op |-> "builds", id |-> 0, deleting |-> FALSE])
    /\ LET i == IndexOfApplication(reviewApp[r].app)
       IN IF i = 0
          THEN /\ Caught(r, "HTTP 404")
               /\ UNCHANGED <<isFinished, sawPending>>
          ELSE LET latestBuilds == BuildList(reviewApps[i].builds)
                   build == FindBuild(latestBuilds, ev[r].version)
                   outcome == BuildOutcome(build)
               IN /\ sawPending' = [sawPending EXCEPT ![r] =
                                       @ \/ build.status = "pending"]
                  /\ IF outcome \notin {"finished", "wait"}
                     THEN Caught(r, outcome) /\ isFinished' = isFinished
                     ELSE /\ isFinished' = [isFinished EXCEPT ![r] =
                                               outcome = "finished"]
                          /\ Goto(r, IF pc[r] = "w_builds1" THEN "w_find2"
                                     ELSE "w_sleep")
                          /\ failed' = failed
    /\ UNCHANGED <<platformVars, ev, app, destroyStatus, reviewApp, outputs,
                   postResult>>

\* WatchSleep with the loop condition inverted: while (isFinished)
WatchSleep_Inverted(r) ==
    /\ pc[r] = "w_sleep"
    /\ IF isFinished[r] THEN Goto(r, "w_find2") ELSE Goto(r, "w_details")
    /\ UNCHANGED <<platformVars, ev, app, destroyStatus, reviewApp,
                   isFinished, failed, outputs, calls, postResult,
                   sawPending>>

\* waitReviewAppUpdated: await waitSeconds(5); while (!isFinished)
WatchSleep(r) ==
    /\ pc[r] = "w_sleep"
    /\ IF isFinished[r] THEN Goto(r, "w_details") ELSE Goto(r, "w_find2")
    /\ UNCHANGED <<platformVars, ev, app, destroyStatus, reviewApp,
                   isFinished, failed, outputs, calls, postResult,
                   sawPending>>

\* WatchDetails that publishes the application of the review app before its
\* details are fetched
WatchDetails_PublishFirst(r) ==
    /\ pc[r] = "w_details"
    /\ Called(r, [op |-> "details", id |-> 0, deleting |-> FALSE])
    /\ outputs' = [outputs EXCEPT ![r] =
                      [app_id |-> reviewApp[r].app,
                       app_web_url |-> WebUrl(reviewApp[r].app)]]
    /\ IF IndexOfApplication(reviewApp[r].app) = 0
       THEN Caught(r, "HTTP 404")
       ELSE Goto(r, "done") /\ failed' = failed
    /\ UNCHANGED <<platformVars, ev, localVars, postResult, sawPending>>

\* return getAppDetails(reviewApp.app.id), then outputAppDetails(updatedApp)
WatchDetails(r) ==
    /\ pc[r] = "w_details"
    /\ Called(r, [op |-> "details", id |-> 0, deleting |-> FALSE])
    /\ IF IndexOfApplication(reviewApp[r].app) = 0
       THEN Caught(r, "HTTP 404") /\ outputs' = outputs
       ELSE /\ outputs' = [outputs EXCEPT ![r] =
                              [app_id |-> reviewApp[r].app,
                               app_web_url |-> WebUrl(reviewApp[r].app)]]
            /\ Goto(r, "done")
            /\ failed' = failed
    /\ UNCHANGED <<platformVars, ev, localVars, postResult, sawPending>>

RunNext(r) ==
    \/ Start(r)
    \/ CloseFind(r)
    \/ CloseDelete(r)
    \/ Find(r)
    \/ Destroy(r)
    \/ DestroyPoll(r)
    \/ DestroySleep(r)
    \/ CreateArchive(r)
    \/ CreatePost(r)
    \/ CreateRelocate(r)
    \/ WatchFind(r)
    \/ WatchBuilds(r)
    \/ WatchSleep(r)
    \/ WatchDetails(r)

----------------------------------------------------------------------------
\* The platform's own steps on the review app of this pull request

runVars == <<ev, pc, localVars, failed, outputs, calls, postResult,
             sawPending>>

Mine(i) == reviewApps[i].pr_number = ThisPR

\* pending -> creating -> created, where the application appears
PlatformProvision(i) ==
    /\ Mine(i)
    /\ \/ /\ reviewApps[i].status = "pending"
          /\ reviewApps' = [reviewApps EXCEPT ![i].status = "creating"]
       \/ /\ reviewApps[i].status = "creating"
          /\ reviewApps' = [reviewApps EXCEPT ![i].status = "created",
                                              ![i].app = AppIdFor(reviewApps[i].id)]
    /\ UNCHANGED <<nextId, runVars>>

\* creating -> errored, without an application
PlatformError(i) ==
    /\ Mine(i)
    /\ reviewApps[i].status = "creating"
    /\ reviewApps' = [reviewApps EXCEPT ![i].status = "errored"]
    /\ UNCHANGED <<nextId, runVars>>

\* the application registers a build of a commit of the pull request
PlatformBuildStart(i, v) ==
    /\ Mine(i)
    /\ reviewApps[i].app # 0
    /\ reviewApps[i].status # "deleting"
    /\ reviewApps[i].builds[v] = "none"
    /\ reviewApps' = [reviewApps EXCEPT ![i].builds[v] = "pending"]
    /\ UNCHANGED <<nextId, runVars>>

\* a pending build ends
PlatformBuildEnd(i, v) ==
    /\ Mine(i)
    /\ reviewApps[i].builds[v] = "pending"
    /\ \E result \in {"succeeded", "failed"} :
        reviewApps' = [reviewApps EXCEPT ![i].builds[v] = result]
    /\ UNCHANGED <<nextId, runVars>>

\* a deleting review app leaves the list, with its application
PlatformRemove(i) ==
    /\ Mine(i)
    /\ reviewApps[i].status = "deleting"
    /\ reviewApps' = SubSeq(reviewApps, 1, i - 1)
                        \o SubSeq(reviewApps, i + 1, Len(reviewApps))
    /\ UNCHANGED <<nextId, runVars>>

PlatformNext ==
    \E i \in DOMAIN reviewApps :
        \/ PlatformProvision(i)
        \/ PlatformError(i)
        \/ \E v \in Versions : PlatformBuildStart(i, v)
        \/ \E v \in Versions : PlatformBuildEnd(i, v)
        \/ PlatformRemove(i)

Next == (\E r \in Runs : RunNext(r)) \/ PlatformNext

Spec == Init /\ [][Next]_vars

\* One run with no other run of the pull request in flight.  Every awaited
\* call of the run is answered and every sleep ends, so the run keeps taking
\* its steps.
SoloRun == "r1"

SoloNext == RunNext(SoloRun) \/ PlatformNext

SoloSpec == Init /\ [][SoloNext]_vars /\ WF_vars(RunNext(SoloRun))

----------------------------------------------------------------------------
\* Properties

MutatingOps == {"create", "deleteReviewApp", "destroyApp"}

Issued(r, ops) == \E c \in calls[r] : c.op \in ops

\* the run has passed its first findReviewApp
Located(r) == pc[r] \notin {"start", "find", "close_find"}

Reconciles(r) ==
    /\ ev[r].eventName = VALID_EVENT
    /\ ~ev[r].forkRepo
    /\ ev[r].action # "closed"

Closes(r) ==
    /\ ev[r].eventName = VALID_EVENT
    /\ ~ev[r].forkRepo
    /\ ev[r].action = "closed"

\* the id of the review app the create call of the run created
CreatedId(r) ==
    IF Issued(r, {"create"})
    THEN (CHOOSE c \in calls[r] : c.op = "create").id
    ELSE 0

\* C1: a run whose event comes from a fork never issues a create, a
\* review-app delete or an application destroy call, whatever the action of
\* the event and the state of the platform.
C1_ForkSkip ==
    \A r \in Runs : ev[r].forkRepo => ~Issued(r, MutatingOps)

\* a closed event from a fork has ended while the pull request has a review
\* app that a delete could have hit
C1_Witness ==
    \E r \in Runs :
        /\ ev[r].forkRepo
        /\ ev[r].action = "closed"
        /\ pc[r] = "done"
        /\ PostConflict(ThisPR)

Raced(a, b) ==
    /\ a # b
    /\ Reconciles(a) /\ Located(a) /\ app[a] = NoApp
    /\ Reconciles(b) /\ Located(b) /\ app[b] = NoApp
    /\ postResult[a] \in {"created", "conflict"}
    /\ postResult[b] \in {"created", "conflict"}

\* C3: when two reconcile runs both find no review app and both issue create,
\* exactly one of them creates a review app, and the run answered 409 goes on
\* with the review app the other run created.
C3_RaceConverges ==
    \A a, b \in Runs :
        Raced(a, b) =>
            /\ (postResult[a] = "created") # (postResult[b] = "created")
            /\ (postResult[a] = "created" /\ pc[b] # "c_relocate") =>
                   /\ reviewApp[b].id = CreatedId(a)
                   /\ failed[b].at # "c_relocate"

\* the run answered 409 has reached the build watcher
C3_Witness ==
    \E a, b \in Runs :
        /\ Raced(a, b)
        /\ postResult[a] = "created"
        /\ postResult[b] = "conflict"
        /\ pc[b] = "w_find1"
        /\ reviewApp[b].id = CreatedId(a)

\* the builds GET /apps/:id/builds lists for this application now
BuildsOf(appId) ==
    LET i == IndexOfApplication(appId)
    IN IF i = 0 THEN <<>> ELSE BuildList(reviewApps[i].builds)

HasBuild(list, version, status) ==
    \E k \in DOMAIN list :
        list[k].version = version /\ list[k].status = status

HasBuildOf(list, version) ==
    \E k \in DOMAIN list : list[k].version = version

\* the run takes the step that fetches the builds and decides on them
ChecksBuilds(r) ==
    /\ pc[r] \in {"w_builds1", "w_builds2"}
    /\ pc'[r] # pc[r]

\* C4: a run that found a review app at its start never issues create at a
\* moment when a review app of the pull request is in status deleting.
C4_NoCreateWhileDeleting ==
    \A r \in Runs :
        (Reconciles(r) /\ Located(r) /\ app[r] # NoApp) =>
            \A c \in calls[r] : c.op = "create" => ~c.deleting

\* C5: a closed run whose locator finds no review app ends marked failed by
\* core.setFailed on the controlled path, not by the catch, and issues no
\* delete and no create.
C5_CloseWithoutApp ==
    \A r \in Runs :
        (Closes(r) /\ Located(r) /\ app[r] = NoApp) =>
            /\ pc[r] = "done"
            /\ failed[r].by = "setFailed"
            /\ ~Issued(r, MutatingOps)

\* a closed run has ended without having found a review app
C5_Witness ==
    \E r \in Runs :
        Closes(r) /\ Located(r) /\ app[r] = NoApp /\ pc[r] = "done"

\* C6: a check of the watcher returns finished only when the build list of
\* the application holds a build of the run's commit with status succeeded,
\* and the watcher leaves its loop only when the last check returned finished.
C6_BuildVersionMatching ==
    [][\A r \in Runs :
          /\ (ChecksBuilds(r) /\ failed'[r] = failed[r] /\ isFinished'[r]) =>
                 HasBuild(BuildsOf(reviewApp[r].app), ev[r].version,
                          "succeeded")
          /\ pc'[r] = "w_details" => isFinished[r]]_vars

\* the watcher of a run at commit v2 waits after a check while the builds of
\* the application are {v1: succeeded, v2: pending}
C6_Witness ==
    \E r \in Runs :
        /\ ev[r].version = "v2"
        /\ pc[r] = "w_sleep"
        /\ ~isFinished[r]
        /\ sawPending[r]
        /\ HasBuild(BuildsOf(reviewApp[r].app), "v1", "succeeded")
        /\ HasBuild(BuildsOf(reviewApp[r].app), "v2", "pending")

\* C7: a run that found a review app at its start and publishes outputs
\* publishes the application of another, newer review app.
C7_PublishesNewIdentity ==
    \A r \in Runs :
        (Reconciles(r) /\ app[r] # NoApp /\ outputs[r] # NoOutputs) =>
            /\ reviewApp[r].id # app[r].id
            /\ outputs[r].app_id # app[r].app

\* C9: only a run that reconciled successfully publishes outputs: it is a
\* reconcile run, it has ended, its last check returned finished and it is
\* not marked failed.
C9_OutputsOnlySuccess ==
    \A r \in Runs :
        outputs[r] # NoOutputs =>
            /\ Reconciles(r)
            /\ pc[r] = "done"
            /\ isFinished[r]
            /\ failed[r] = NotFailed

\* a run has published the outputs
C9_Witness ==
    \E r \in Runs :
        /\ outputs[r] # NoOutputs
        /\ outputs[r].app_web_url = WebUrl(outputs[r].app_id)

\* C10: a check that finds no build of the run's commit in the build list of
\* the application returns not finished: the run is not failed and goes on
\* to poll again.
C10_NoMatchIsNotFinished ==
    [][\A r \in Runs :
          (/\ ChecksBuilds(r)
           /\ IndexOfApplication(reviewApp[r].app) # 0
           /\ ~HasBuildOf(BuildsOf(reviewApp[r].app), ev[r].version)) =>
              /\ failed'[r] = NotFailed
              /\ ~isFinished'[r]
              /\ pc'[r] \in {"w_find2", "w_sleep"}]_vars

\* the run was opened with no review app, its create succeeded, and a check
\* of its watcher saw the build of its commit pending and a later one saw it
\* succeeded
OpenedAndBuilt(r) ==
    /\ Reconciles(r)
    /\ ev[r].action = "opened"
    /\ Located(r)
    /\ app[r] = NoApp
    /\ postResult[r] = "created"
    /\ sawPending[r]
    /\ isFinished[r]

\* the run has ended, not failed, with the new application published
PublishedNew(r) ==
    /\ pc[r] = "done"
    /\ failed[r] = NotFailed
    /\ postResult[r] = "created"
    /\ outputs[r] = [app_id |-> AppIdFor(CreatedId(r)),
                     app_web_url |-> WebUrl(AppIdFor(CreatedId(r)))]

Steps(r) == pc'[r] # pc[r]

\* C11: a poll of the destroy-wait loop that finds the review app in another
\* status than deleting, or finds no review app at all, ends the loop: the
\* run goes on to create after the sleep.
C11_DestroyWaitEnds ==
    [][\A r \in Runs :
          /\ (pc[r] = "d_poll" /\ Steps(r)
                /\ Located_Now(r).status # "deleting") =>
                 destroyStatus'[r] # "deleting"
          /\ (pc[r] = "d_sleep" /\ Steps(r)
                /\ destroyStatus[r] # "deleting") =>
                 pc'[r] = "c_archive"]_vars

\* C12: the destroy call of a reconcile run names the application of the
\* review app it found, not the review app itself.
C12_DestroysApplication ==
    \A r \in Runs :
        \A c \in calls[r] :
            c.op = "destroyApp" => (c.id = app[r].app /\ c.id # app[r].id)

WatcherQueries == {"builds", "details"}

\* C13: when create was answered 409 and the re-location finds a review app
\* of the pull request, no error is raised and the run enters the build wait
\* with that review app.
C13_ConflictResolved ==
    [][\A r \in Runs :
          (pc[r] = "c_relocate" /\ Steps(r) /\ Located_Now(r) # NoApp) =>
              /\ pc'[r] = "w_find1"
              /\ failed'[r] = NotFailed
              /\ reviewApp'[r] = Located_Now(r)]_vars

\* a run that found a review app at its start was answered 409, found the
\* review app again and stands at the first query of the watcher
C13_Witness ==
    \E r \in Runs :
        /\ app[r] # NoApp
        /\ postResult[r] = "conflict"
        /\ pc[r] = "w_find1"
        /\ reviewApp[r].id = app[r].id
        /\ failed[r] = NotFailed

\* C14: when create was answered 409 and the re-location finds no review app
\* of the pull request, the run ends marked failed by the catch; it has
\* issued no query of the watcher and publishes no outputs.
C14_ConflictUnresolved ==
    [][\A r \in Runs :
          /\ (pc[r] = "c_relocate" /\ Steps(r) /\ Located_Now(r) = NoApp) =>
                 /\ pc'[r] = "done"
                 /\ failed'[r].by = "caught"
          /\ failed'[r].at = "c_relocate" =>
                 /\ pc'[r] = "done"
                 /\ outputs'[r] = NoOutputs
                 /\ \A c \in calls'[r] : c.op \notin WatcherQueries]_vars

\* a run has failed at the re-location after 409
C14_Witness ==
    \E r \in Runs :
        /\ postResult[r] = "conflict"
        /\ failed[r].at = "c_relocate"
        /\ reviewApp[r] = NoApp

DestroyWaitPcs == {"destroy", "d_poll", "d_sleep"}

WatcherPcs == {"w_find1", "w_find2", "w_builds1", "w_builds2", "w_sleep",
               "w_details"}

\* C15: the phases of a reconcile run do not overlap: create is not issued
\* during the destroy wait and, in a run that found a review app, only after
\* a poll saw it in another status than deleting; the watcher starts, and
\* issues its queries, only after create was answered created, or 409 with a
\* review app found.
C15_StrictSequencing ==
    \A r \in Runs :
        /\ pc[r] \in DestroyWaitPcs => ~Issued(r, {"create"})
        /\ (app[r] # NoApp
              /\ (pc[r] \in {"c_archive", "c_post"} \/ Issued(r, {"create"})))
             => destroyStatus[r] \notin {"none", "deleting"}
        /\ pc[r] \in {"c_archive", "c_post", "c_relocate"}
             => ~Issued(r, WatcherQueries)
        /\ (pc[r] \in WatcherPcs \/ Issued(r, WatcherQueries)) =>
             /\ Issued(r, {"create"})
             /\ postResult[r] \in {"created", "conflict"}
             /\ failed[r].at # "c_relocate"

\* a run that found a review app has left the destroy wait, issued create
\* and fetches builds in its watcher
C15_Witness ==
    \E r \in Runs :
        /\ app[r] # NoApp
        /\ destroyStatus[r] = "created"
        /\ Issued(r, {"create"})
        /\ pc[r] = "w_builds2"

\* the destroy call of the run names no application of the platform
DestroyFails(r) == IndexOfApplication(DestroyTarget(app[r])) = 0

\* C16 as claimed: a failing destroy call aborts the run, which ends marked
\* failed without issuing create.
C16_DestroyFailureAborts ==
    [][\A r \in Runs :
          (pc[r] = "destroy" /\ Steps(r) /\ DestroyFails(r)) =>
              /\ pc'[r] = "done"
              /\ failed'[r].by = "caught"]_vars

\* C16 as amended: a failing destroy call is only noticed: the run is not
\* marked failed by it and enters the destroy wait with destroyStatus
\* deleting, from where it can go on to create.
C16_DestroyFailureNoticed ==
    [][\A r \in Runs :
          (pc[r] = "destroy" /\ Steps(r) /\ DestroyFails(r)) =>
              /\ pc'[r] = "d_poll"
              /\ failed'[r] = NotFailed
              /\ destroyStatus'[r] = "deleting"
              /\ reviewApps' = reviewApps]_vars

\* a run whose destroy call failed has gone on and issued create
C16_Witness ==
    \E r \in Runs :
        /\ Issued(r, {"destroyApp"})
        /\ DestroyFails(r)
        /\ Issued(r, {"create"})
        /\ pc[r] = "c_relocate"
        /\ failed[r] = NotFailed

\* the status on the platform of the build of the run's version, for the
\* application the run's watcher holds ("none" without such an application)
TargetBuildStatus(r) ==
    LET i == IndexOfApplication(reviewApp[r].app)
    IN IF reviewApp[r] = NoApp \/ i = 0 THEN "none"
       ELSE reviewApps[i].builds[ev[r].version]

\* C17: when the watcher fetches the builds and the build of the target
\* version has a status that is neither succeeded nor pending, the run ends
\* there, marked failed by the top-level handler, with no outputs; a run
\* that failed so stays ended without outputs.
C17_FailedBuildIsFatal ==
    [][\A r \in Runs :
          /\ (pc[r] \in {"w_builds1", "w_builds2"} /\ Steps(r)
                /\ TargetBuildStatus(r) \notin {"none", "succeeded", "pending"})
               => /\ pc'[r] = "done"
                  /\ failed'[r].by = "caught"
                  /\ failed'[r].message = "Unexpected build status"
                  /\ isFinished'[r] = isFinished[r]
          /\ failed'[r].message = "Unexpected build status"
               => /\ pc'[r] = "done"
                  /\ outputs'[r] = NoOutputs
                  /\ ~Issued(r, {"details"})]_vars

\* a run has ended on the failed build of its version
C17_Witness ==
    \E r \in Runs :
        /\ failed[r].message = "Unexpected build status"
        /\ TargetBuildStatus(r) = "failed"

\* the review app is in none of the waiting statuses and has no application
Inconsistent(a) ==
    /\ a # NoApp
    /\ a.status \notin {"creating", "pending", "deleting"}
    /\ a.app = 0

\* C18: when the watcher locates a review app that is in none of the
\* statuses creating, pending, deleting and has no application, the step
\* ends the run, marked failed by the top-level handler, and the run issues
\* no build query for it.
C18_UnexpectedAppStatus ==
    [][\A r \in Runs :
          (pc[r] \in {"w_find1", "w_find2"} /\ Steps(r)
             /\ Inconsistent(Located_Now(r)))
            => /\ pc'[r] = "done"
               /\ failed'[r].by = "caught"
               /\ failed'[r].message = "Unexpected app status"
               /\ \A c \in calls'[r] \ calls[r] : c.op # "builds"
               /\ outputs'[r] = NoOutputs]_vars

\* a run has ended on an errored review app without application
C18_Witness ==
    \E r \in Runs :
        /\ failed[r].message = "Unexpected app status"
        /\ Inconsistent(reviewApp[r])
        /\ reviewApp[r].status = "errored"

C20_AbsentInWatcherFails ==
    [][\A r \in Runs :
          (pc[r] \in {"w_find1", "w_find2"} /\ Steps(r)
             /\ Located_Now(r) = NoApp)
            => /\ pc'[r] = "done"
               /\ failed'[r].by = "caught"
               /\ failed'[r].at = pc[r]
               /\ outputs'[r] = NoOutputs
               /\ ~Issued(r, {"details"})]_vars

\* a run whose create was answered has ended in its watcher on a review
\* app that is no longer there
C20_Witness ==
    \E r \in Runs :
        /\ postResult[r] \in {"created", "conflict"}
        /\ failed[r].at \in {"w_find1", "w_find2"}
        /\ failed[r].message = "TypeError: cannot read status of null"
        /\ reviewApp[r] = NoApp
        /\ outputs[r] = NoOutputs

====
